---------------------------- MODULE Spec2Model ----------------------------
(***************************************************************************)
(* A model of src/detector/GECScore.py: the GECScore detector.             *)
(*                                                                         *)
(*   - get_roc_metrics / get_roc_metrics_with_threshold (threshold         *)
(*     calibration and fixed-threshold evaluation) are operators, with     *)
(*     sklearn's roc_curve, auc, confusion_matrix and the scores computed  *)
(*     the way the library computes them;                                  *)
(*   - process_data and experiment are the actions of the pipeline.        *)
(*                                                                         *)
(* Similarity scores are floats in [0,1] in the program.  Only their order *)
(* matters to roc_curve and to ">= threshold", so a score is modelled as a *)
(* natural number (a rank); np.inf, None and a missing key are the         *)
(* sentinels PosInf, NoneVal and KeyAbsent.  The rates tpr and fpr and     *)
(* their difference are float64 values in the program and are modelled     *)
(* bit by bit (round to nearest, ties to even), because np.argmax compares *)
(* the rounded differences.                                                *)
(***************************************************************************)
EXTENDS Integers, Sequences, FiniteSets, TLC

(***************************************************************************)
(* Bounds of the model.                                                    *)
(***************************************************************************)
MaxLen == 3        \* longest population drawn for the metric functions
MaxScore == 2      \* scores are drawn from 0..MaxScore
MaxRuns == 2       \* how many times the command is run on the same disk

(***************************************************************************)
(* Sentinels of the program's values.                                      *)
(***************************************************************************)
PosInf == 1000     \* np.inf, thresholds[0] of roc_curve
NoneVal == -1      \* Python's None (a failed correction, a failed score)
KeyAbsent == -2    \* the item has no such key
BadText == -3      \* a non-empty corrected text on which rouge raises

(***************************************************************************)
(* float64 values in [0,1], as numpy holds tpr, fpr and tpr - fpr.  A      *)
(* value is the fixed-point number <<u, a, b, c>>: the units digit u and   *)
(* three digits of base Limb = 2^24 after the point, that is 72 binary     *)
(* places.  Every float64 in [2^-19, 1] is such a number exactly; a result *)
(* is rounded to MantBits significant bits, to nearest, ties to even.      *)
(***************************************************************************)
MantBits == 53
LimbBits == 24
Limb == 2^LimbBits
FracBits == 3 * LimbBits

\* the number of binary digits of v > 0
BitLen(v) == CHOOSE k \in 1..LimbBits : 2^(k - 1) <= v /\ v < 2^k

\* the binary place of the leading 1 of x (0: the units digit), x # 0
LeadPlace(x) ==
    IF x[1] > 0 THEN 0
    ELSE IF x[2] > 0 THEN LimbBits + 1 - BitLen(x[2])
    ELSE IF x[3] > 0 THEN 2 * LimbBits + 1 - BitLen(x[3])
    ELSE 3 * LimbBits + 1 - BitLen(x[4])

\* carries of the last digit into the digits before it
Carry(x) ==
    LET c == x[4] % Limb
        b == x[3] + x[4] \div Limb
        a == x[2] + b \div Limb
    IN <<x[1] + a \div Limb, a % Limb, b % Limb, c>>

\* x, with `sticky` telling that digits beyond the last one were cut off,
\* rounded to MantBits significant bits
RoundSig(x, sticky) ==
    IF x = <<0, 0, 0, 0>> THEN x
    ELSE LET drop == FracBits - (LeadPlace(x) + MantBits - 1)
         IN IF drop <= 0 THEN x
            ELSE LET unit == 2^drop
                     kept == x[4] \div unit
                     rest == x[4] % unit
                     half == unit \div 2
                     up == \/ rest > half
                           \/ rest = half /\ (sticky \/ kept % 2 = 1)
                 IN Carry(<<x[1], x[2], x[3], (kept + (IF up THEN 1 ELSE 0)) * unit>>)

\* a / n as numpy computes it (0 <= a <= n, 0 < n < 2^7)
FloatDiv(a, n) ==
    LET r0 == a % n
        r1 == (r0 * Limb) % n
        r2 == (r1 * Limb) % n
        r3 == (r2 * Limb) % n
    IN RoundSig(<<a \div n, (r0 * Limb) \div n, (r1 * Limb) \div n, (r2 * Limb) \div n>>,
                r3 # 0)

DigitsLess(x, y) ==
    \E i \in 1..4 : x[i] < y[i] /\ \A j \in 1..(i - 1) : x[j] = y[j]

\* x - y for x >= y, digit by digit with the borrows
DigitsSub(x, y) ==
    LET c == x[4] - y[4]
        b == x[3] - y[3] - (IF c < 0 THEN 1 ELSE 0)
        a == x[2] - y[2] - (IF b < 0 THEN 1 ELSE 0)
        u == x[1] - y[1] - (IF a < 0 THEN 1 ELSE 0)
    IN <<u, a % Limb, b % Limb, c % Limb>>

\* x - y as numpy computes it: a signed magnitude
FloatSub(x, y) ==
    IF DigitsLess(x, y)
    THEN [neg |-> TRUE, mag |-> RoundSig(DigitsSub(y, x), FALSE)]
    ELSE [neg |-> FALSE, mag |-> RoundSig(DigitsSub(x, y), FALSE)]

FloatLess(a, b) ==
    IF a.neg /\ ~b.neg THEN TRUE
    ELSE IF ~a.neg /\ b.neg THEN FALSE
    ELSE IF a.neg THEN DigitsLess(b.mag, a.mag)
    ELSE DigitsLess(a.mag, b.mag)

(***************************************************************************)
(* Sequence helpers.                                                       *)
(***************************************************************************)
RECURSIVE CumSum(_)
CumSum(seq) ==
    IF seq = <<>> THEN <<>>
    ELSE LET front == CumSum(SubSeq(seq, 1, Len(seq) - 1))
         IN Append(front, (IF front = <<>> THEN 0 ELSE front[Len(front)]) + seq[Len(seq)])

RECURSIVE Repeat(_, _)
Repeat(v, n) == IF n = 0 THEN <<>> ELSE Append(Repeat(v, n - 1), v)

\* the members of the set of indices idxs, ascending
RECURSIVE Ascending(_)
Ascending(idxs) ==
    IF idxs = {} THEN <<>>
    ELSE LET m == CHOOSE a \in idxs : \A b \in idxs : a <= b
         IN <<m>> \o Ascending(idxs \ {m})

\* seq[idxSeq[1]], seq[idxSeq[2]], ... (numpy's seq[idxSeq])
RECURSIVE Pick(_, _)
Pick(seq, idxSeq) ==
    IF idxSeq = <<>> THEN <<>>
    ELSE Append(Pick(seq, SubSeq(idxSeq, 1, Len(idxSeq) - 1)), seq[idxSeq[Len(idxSeq)]])

\* <<1, ..., n>>
Range(n) == Ascending(1..n)

\* the function f on 1..n as the list <<f[1], ..., f[n]>>
ToList(f, n) == Pick(f, Range(n))

\* a[2] - a[1], a[3] - a[2], ... (np.diff)
RECURSIVE Diff(_)
Diff(a) ==
    IF Len(a) < 2 THEN <<>>
    ELSE Append(Diff(SubSeq(a, 1, Len(a) - 1)), a[Len(a)] - a[Len(a) - 1])

Count(seq, v) == Cardinality({i \in 1..Len(seq) : seq[i] = v})

\* a rational num/den; den = 0 is NaN
Ratio(num, den) == <<num, den>>
IsNaN(q) == q[2] = 0
IsOne(q) == q[2] > 0 /\ q[1] = q[2]

(***************************************************************************)
(* sklearn.metrics.roc_curve(y_true, y_score), drop_intermediate = True.   *)
(* The curve is kept as counts: tpr[i] = tps[i] / P and fpr[i] = fps[i] / N*)
(* with P = tps[last] and N = fps[last]; a rate over 0 samples is NaN.     *)
(***************************************************************************)
\* np.argsort(y_score, kind="mergesort")[::-1]
DescScoreIndices(y_score) ==
    LET n == Len(y_score)
        asc(i) == 1 + Cardinality({j \in 1..n :
                        y_score[j] < y_score[i] \/ (y_score[j] = y_score[i] /\ j < i)})
    IN IF n = 0 THEN <<>>
       ELSE ToList([k \in 1..n |-> CHOOSE i \in 1..n : asc(i) = n + 1 - k],
                 n)

\* _binary_clf_curve: one point per distinct score, scores descending
BinaryClfCurve(y_true, y_score) ==
    LET order == DescScoreIndices(y_score)
        score == Pick(y_score, order)
        truth == Pick(y_true, order)
        n == Len(score)
        threshold_idxs == Ascending({k \in 1..n : k = n \/ score[k] # score[k + 1]})
        cum == CumSum(truth)
        tps == Pick(cum, threshold_idxs)
    IN [tps |-> tps,
        fps |-> ToList([k \in 1..Len(threshold_idxs) |-> threshold_idxs[k] - tps[k]],
                     Len(threshold_idxs)),
        thresholds |-> Pick(score, threshold_idxs)]

\* np.diff(a, 2)
Diff2(a) == Diff(Diff(a))

RocCurve(y_true, y_score) ==
    LET c == BinaryClfCurve(y_true, y_score)
        m == Len(c.fps)
        dfps == Diff2(c.fps)
        dtps == Diff2(c.tps)
        optimal_idxs ==
            IF m > 2
            THEN Ascending({k \in 1..m : \/ k = 1
                                         \/ k = m
                                         \/ dfps[k - 1] # 0
                                         \/ dtps[k - 1] # 0})
            ELSE Ascending(1..m)
    IN [fps |-> <<0>> \o Pick(c.fps, optimal_idxs),
        tps |-> <<0>> \o Pick(c.tps, optimal_idxs),
        thresholds |-> <<PosInf>> \o Pick(c.thresholds, optimal_idxs)]

Positives(curve) == curve.tps[Len(curve.tps)]
Negatives(curve) == curve.fps[Len(curve.fps)]

\* sklearn.metrics.auc(fpr, tpr): the trapezoid rule, as an exact rational
Auc(curve) ==
    LET m == Len(curve.fps)
        twice(k) == (curve.fps[k + 1] - curve.fps[k]) * (curve.tps[k + 1] + curve.tps[k])
        sums == CumSum(ToList([k \in 1..(m - 1) |-> twice(k)], m - 1))
    IN Ratio(sums[m - 1], 2 * Positives(curve) * Negatives(curve))

\* (tpr - fpr)[k], float64
YoudenJ(curve, k) ==
    FloatSub(FloatDiv(curve.tps[k], Positives(curve)),
             FloatDiv(curve.fps[k], Negatives(curve)))

\* np.argmax(tpr - fpr): the first index of the largest value; an array of NaN
\* (no positive or no negative sample) has its first NaN at index 0
ArgmaxYouden(curve) ==
    IF Positives(curve) = 0 \/ Negatives(curve) = 0 THEN 1
    ELSE LET m == Len(curve.tps)
             J == ToList([k \in 1..m |-> YoudenJ(curve, k)], m)
         IN CHOOSE k \in 1..m :
                /\ \A j \in 1..m : ~FloatLess(J[k], J[j])
                /\ \A j \in 1..(k - 1) : FloatLess(J[j], J[k])


(***************************************************************************)
(* sklearn's confusion_matrix, precision_score, recall_score, f1_score and *)
(* accuracy_score on 0/1 labels (pos_label = 1, zero_division = 0).        *)
(***************************************************************************)
CountPair(y_true, y_pred, t, p) ==
    Cardinality({i \in 1..Len(y_true) : y_true[i] = t /\ y_pred[i] = p})

\* rows: true label, columns: predicted label, over the labels that occur
ConfusionMatrix(y_true, y_pred) ==
    LET labels == Ascending({y_true[i] : i \in 1..Len(y_true)}
                            \cup {y_pred[i] : i \in 1..Len(y_pred)})
        row(t) == ToList([c \in 1..Len(labels) |-> CountPair(y_true, y_pred, t, labels[c])],
                       Len(labels))
    IN ToList([r \in 1..Len(labels) |-> row(labels[r])], Len(labels))

ZeroDivision(num, den) == IF den = 0 THEN Ratio(0, 1) ELSE Ratio(num, den)

PrecisionScore(y_true, y_pred) ==
    ZeroDivision(CountPair(y_true, y_pred, 1, 1), Count(y_pred, 1))

RecallScore(y_true, y_pred) ==
    ZeroDivision(CountPair(y_true, y_pred, 1, 1), Count(y_true, 1))

F1Score(y_true, y_pred) ==
    ZeroDivision(2 * CountPair(y_true, y_pred, 1, 1), Count(y_pred, 1) + Count(y_true, 1))

AccuracyScore(y_true, y_pred) ==
    Ratio(CountPair(y_true, y_pred, 0, 0) + CountPair(y_true, y_pred, 1, 1), Len(y_true))

(***************************************************************************)
(* get_roc_metrics and get_roc_metrics_with_threshold.                     *)
(***************************************************************************)
RealLabels(real_preds, sample_preds) ==
    Repeat(0, Len(real_preds)) \o Repeat(1, Len(sample_preds))

HasNone(probs) == \E i \in 1..Len(probs) : probs[i] = NoneVal

Raised(error) == [kind |-> "raise", error |-> error]

Report(roc_auc, threshold, y_true, y_pred) ==
    [kind |-> "report",
     roc_auc |-> roc_auc,
     optimal_threshold |-> threshold,
     conf_matrix |-> ConfusionMatrix(y_true, y_pred),
     precision |-> PrecisionScore(y_true, y_pred),
     recall |-> RecallScore(y_true, y_pred),
     f1 |-> F1Score(y_true, y_pred),
     accuracy |-> AccuracyScore(y_true, y_pred)]

\* the decision rule with the comparison made strict
StrictPredictions(predicted_probs, threshold) ==
    ToList([i \in 1..Len(predicted_probs) |->
             IF predicted_probs[i] > threshold THEN 1 ELSE 0],
         Len(predicted_probs))

\* the same slip in the fixed-threshold rule
StrictFixedPredictions(predicted_probs, threshold) ==
    StrictPredictions(predicted_probs, threshold)

\* line 75: [1 if prob >= optimal_threshold else 0 for prob in predicted_probs]
CalibratedPredictions(predicted_probs, optimal_threshold) ==
    ToList([i \in 1..Len(predicted_probs) |->
             IF predicted_probs[i] >= optimal_threshold THEN 1 ELSE 0],
         Len(predicted_probs))

\* line 100: [1 if prob >= threshold else 0 for prob in predicted_probs]
FixedPredictions(predicted_probs, threshold) ==
    ToList([i \in 1..Len(predicted_probs) |->
             IF predicted_probs[i] >= threshold THEN 1 ELSE 0],
         Len(predicted_probs))

\* roc_curve raises on no sample at all (ValueError); a None among the scores
\* cannot be ordered or compared with the threshold (TypeError); with one
\* class missing roc_curve warns and returns NaN rates
get_roc_metrics(real_preds, sample_preds) ==
    LET real_labels == RealLabels(real_preds, sample_preds)
        predicted_probs == real_preds \o sample_preds
    IN IF HasNone(predicted_probs) THEN Raised("TypeError")
       ELSE IF predicted_probs = <<>> THEN Raised("ValueError")
       ELSE LET curve == RocCurve(real_labels, predicted_probs)
                optimal_idx == ArgmaxYouden(curve)
                optimal_threshold == curve.thresholds[optimal_idx]
            IN Report(Auc(curve), optimal_threshold, real_labels,
                      CalibratedPredictions(predicted_probs, optimal_threshold))

get_roc_metrics_with_threshold(real_preds, sample_preds, threshold) ==
    LET real_labels == RealLabels(real_preds, sample_preds)
        predicted_probs == real_preds \o sample_preds
    IN IF HasNone(predicted_probs) THEN Raised("TypeError")
       ELSE IF predicted_probs = <<>> THEN Raised("ValueError")
       ELSE LET predictions == FixedPredictions(predicted_probs, threshold)
            IN Report(Auc(RocCurve(real_labels, predictions)), threshold,
                      real_labels, predictions)


(***************************************************************************)
(* process_data(filename, llm_model).                                      *)
(*                                                                         *)
(* An item of a data file is [label, gec_text, score]; score is the key    *)
(* 'llm_text_rouge2_score'.  The item's own text is not modelled: it only  *)
(* feeds the prompt and rouge, so a corrected text is named by what rouge  *)
(* makes of it against the item's text: the ROUGE-2 F-score it gets, or    *)
(* BadText when rouge raises on it.  NoneVal stands for None and for "",   *)
(* which every test of the code treats alike.                              *)
(***************************************************************************)
Item(label, gec_text, score) == [label |-> label, gec_text |-> gec_text, score |-> score]

Missing == [exists |-> FALSE, items |-> <<>>]
File(items) == [exists |-> TRUE, items |-> items]

\* what client.chat.completions.create can answer for one item: a failure
\* (chat_with_gpt4o returns None), a corrected text on which rouge raises,
\* or a corrected text that rouge scores (with the score MaxScore)
ServiceOutcomes == {NoneVal, BadText, MaxScore}

\* item.get("gec_text") is truthy
HasCorrection(item) == item.gec_text \notin {KeyAbsent, NoneVal}

\* lines 138-145: the correction, asked for only when the item has none
Corrected(item, answer) ==
    IF HasCorrection(item) THEN item ELSE [item EXCEPT !.gec_text = answer]

\* lines 148-156: the score, set when the item has a correction; None when
\* rouge raises
Scored(item) ==
    IF ~HasCorrection(item) THEN item
    ELSE IF item.gec_text = BadText THEN [item EXCEPT !.score = NoneVal]
    ELSE [item EXCEPT !.score = item.gec_text]

NoPredictions == [human |-> <<>>, llm |-> <<>>]

\* lines 158-162: item['llm_text_rouge2_score'] joins its label's list
Grouped(predictions, item) ==
    [predictions EXCEPT ![item.label] = Append(@, item.score)]

\* lines 137-162, from item i on.  `answers[i]` is the service's answer for
\* item i if it is asked.  The lookup of a missing score key raises KeyError
\* out of the loop, before anything is saved.
RECURSIVE ProcessItems(_, _, _, _, _)
ProcessItems(data, answers, i, predictions, asked) ==
    IF i > Len(data)
    THEN [kind |-> "return", error |-> "", data |-> data,
          predictions |-> predictions, asked |-> asked]
    ELSE LET item == Scored(Corrected(data[i], answers[i]))
             now == [data EXCEPT ![i] = item]
             asks == IF HasCorrection(data[i]) THEN asked ELSE asked \cup {i}
         IN IF item.score = KeyAbsent
            THEN [kind |-> "raise", error |-> "KeyError", data |-> now,
                  predictions |-> predictions, asked |-> asks]
            ELSE ProcessItems(now, answers, i + 1, Grouped(predictions, item), asks)

\* lines 125-133: the cache file if it exists, else the data file
Loaded(raw, cache) == IF cache.exists THEN cache ELSE raw

process_data(raw, cache, answers) ==
    LET file == Loaded(raw, cache)
    IN IF ~file.exists
       THEN [kind |-> "raise", error |-> "FileNotFoundError", data |-> <<>>,
             predictions |-> NoPredictions, asked |-> {}]
       ELSE ProcessItems(file.items, answers, 1, NoPredictions, {})

(***************************************************************************)
(* State.                                                                  *)
(***************************************************************************)
VARIABLES
    real_preds,      \* get_roc_metrics: the human population passed in
    sample_preds,    \* get_roc_metrics: the llm population passed in
    mpc,             \* which of the two metric functions has returned
    calibrated,      \* what get_roc_metrics returned (or raised)
    evaluated,       \* what get_roc_metrics_with_threshold returned (or raised)
    args,            \* the command line: threshold, threshold_value, the paths
    disk,            \* the data files, by name
    processed,       \* the *_processed_train.json cache files, by name
    pc,              \* where experiment() is
    idx,             \* the position in the list of files being looped over
    all_train_predictions,
    optimal_threshold,
    trace,           \* history: what this run has called and written, in order
    calls,           \* history: service requests per item, over all runs
    obtained,        \* history: the items the service has returned a text for
    recalled,        \* history: the service was asked again for such an item
    runs             \* how many times the command has been started

metricVars == <<real_preds, sample_preds, mpc, calibrated, evaluated>>
pipeVars == <<args, disk, processed, pc, idx, all_train_predictions,
              optimal_threshold, trace, calls, obtained, recalled, runs>>
vars == <<metricVars, pipeVars>>

NoResult == [kind |-> "none"]

(***************************************************************************)
(* MetricSpec: the two metric functions applied to bounded populations.    *)
(* A score s stands for the float s / 10.                                  *)
(***************************************************************************)
Scores == 0..MaxScore
Populations == UNION {[1..n -> Scores] : n \in 0..MaxLen}

\* spec section 8, property 7: human [0.9, 0.8, 0.7], llm [0.1, 0.2, 0.3]
ExampleHigh == <<9, 8, 7>>
ExampleLow == <<1, 2, 3>>

\* the pipeline, not started (MetricSpec leaves it so)
PipelineIdle ==
    /\ args = [threshold |-> FALSE, threshold_value |-> 0,
               train_data_path |-> <<>>, test_data_path |-> <<>>]
    /\ disk = <<>>
    /\ processed = <<>>
    /\ pc = "idle"
    /\ idx = 0
    /\ all_train_predictions = NoPredictions
    /\ optimal_threshold = NoneVal
    /\ trace = <<>>
    /\ calls = <<>>
    /\ obtained = {}
    /\ recalled = FALSE
    /\ runs = 0

MetricInit ==
    /\ \/ real_preds \in Populations /\ sample_preds \in Populations
       \/ real_preds = ExampleHigh /\ sample_preds = ExampleLow
       \/ real_preds = ExampleLow /\ sample_preds = ExampleHigh
    /\ mpc = "input"
    /\ calibrated = NoResult
    /\ evaluated = NoResult
    /\ PipelineIdle

Calibrate ==
    /\ mpc = "input"
    /\ calibrated' = get_roc_metrics(real_preds, sample_preds)
    /\ mpc' = "calibrated"
    /\ UNCHANGED <<real_preds, sample_preds, evaluated, pipeVars>>

EvaluateCalibrated ==
    /\ mpc = "calibrated"
    /\ calibrated.kind = "report"
    /\ evaluated' = get_roc_metrics_with_threshold(real_preds, sample_preds,
                                                   calibrated.optimal_threshold)
    /\ mpc' = "evaluated"
    /\ UNCHANGED <<real_preds, sample_preds, calibrated, pipeVars>>

MetricNext == Calibrate \/ EvaluateCalibrated

MetricSpec == MetricInit /\ [][MetricNext]_vars

(***************************************************************************)
(* Spec: experiment(args), run up to MaxRuns times on the same disk.       *)
(***************************************************************************)
FileNames == {1, 2}

Plain(label) == Item(label, KeyAbsent, KeyAbsent)
\* an item that comes with a score but no correction
Stale(label) == Item(label, KeyAbsent, 1)
\* an item that comes with its correction (the optional gec_text)
Prepared(label) == Item(label, MaxScore, KeyAbsent)

InputFiles ==
    {Missing,
     File(<<Plain("human"), Plain("llm")>>),
     File(<<Stale("human"), Plain("llm")>>),
     File(<<Prepared("llm")>>)}

\* a comma-separated list of file names, split
Paths == UNION {[1..n -> FileNames] : n \in 1..2}

\* args.train_data_path when the option is not given (None)
NoPath == <<>>

\* the default of --threshold_value, 0.9243697428995128, as a rank
DefaultThreshold == MaxScore

Init ==
    /\ real_preds = <<>>
    /\ sample_preds = <<>>
    /\ mpc = "idle"
    /\ calibrated = NoResult
    /\ evaluated = NoResult
    /\ \/ \E train \in Paths \cup {NoPath}, test \in Paths :
              args = [threshold |-> FALSE, threshold_value |-> DefaultThreshold,
                      train_data_path |-> train, test_data_path |-> test]
       \/ \E train \in {NoPath, <<1>>}, test \in Paths, value \in 1..MaxScore :
              args = [threshold |-> TRUE, threshold_value |-> value,
                      train_data_path |-> train, test_data_path |-> test]
    /\ disk \in [FileNames -> InputFiles]
    /\ processed = [f \in FileNames |-> Missing]
    /\ pc = "start"
    /\ idx = 0
    /\ all_train_predictions = NoPredictions
    /\ optimal_threshold = NoneVal
    /\ trace = <<>>
    /\ calls = [f \in FileNames |-> [i \in 1..Len(disk[f].items) |-> 0]]
    /\ obtained = {}
    /\ recalled = FALSE
    /\ runs = 1

\* the events of the history
Processed(phase, position, file, r) ==
    [op |-> "process_data", phase |-> phase, position |-> position, file |-> file,
     kind |-> r.kind, error |-> r.error, data |-> r.data, predictions |-> r.predictions]
Calibrated(human, llm, r) ==
    [op |-> "get_roc_metrics", human |-> human, llm |-> llm, result |-> r]
Evaluated(position, file, predictions, threshold, r) ==
    [op |-> "get_roc_metrics_with_threshold", position |-> position, file |-> file,
     human |-> predictions.human, llm |-> predictions.llm,
     threshold |-> threshold, result |-> r]
Written(position, file, report) ==
    [op |-> "write", position |-> position, file |-> file, report |-> report]
Failed(error) == [op |-> "raise", error |-> error]

\* what a call of process_data on `file` with the service's `answers` does to
\* the cache and to the history of the service
AfterProcessData(file, r) ==
    /\ processed' = IF r.kind = "return"
                    THEN [processed EXCEPT ![file] = File(r.data)]
                    ELSE processed
    /\ calls' = [calls EXCEPT ![file] =
                    [i \in DOMAIN @ |-> IF i \in r.asked THEN @[i] + 1 ELSE @[i]]]
    /\ recalled' = (recalled \/ \E i \in r.asked : <<file, i>> \in obtained)
    /\ obtained' = obtained \cup
                     {<<file, i>> : i \in {j \in r.asked : HasCorrection(r.data[j])}}

Answers(file) == [1..Len(Loaded(disk[file], processed[file]).items) -> ServiceOutcomes]

\* the branch taken on the training path instead of on args.threshold
StartOnTrainingPath ==
    /\ pc = "start"
    /\ IF args.train_data_path = NoPath THEN pc' = "test" ELSE pc' = "train"
    /\ idx' = 1
    /\ UNCHANGED <<metricVars, args, disk, processed, all_train_predictions,
                   optimal_threshold, trace, calls, obtained, recalled, runs>>

\* lines 178-186 and 209-212: the branch on args.threshold
Start ==
    /\ pc = "start"
    /\ IF args.threshold THEN pc' = "test" /\ trace' = trace
       ELSE IF args.train_data_path = NoPath
            THEN pc' = "aborted" /\ trace' = Append(trace, Failed("AttributeError"))
            ELSE pc' = "train" /\ trace' = trace
    /\ idx' = 1
    /\ UNCHANGED <<metricVars, args, disk, processed, all_train_predictions,
                   optimal_threshold, calls, obtained, recalled, runs>>

\* the new predictions put in front of the ones gathered so far
ExtendedInFront(all, predictions) ==
    [human |-> predictions.human \o all.human, llm |-> predictions.llm \o all.llm]

\* lines 215-216: all_train_predictions[...].extend(train_predictions[...])
Extended(all, predictions) ==
    [human |-> all.human \o predictions.human, llm |-> all.llm \o predictions.llm]

\* lines 213-216: one training file
TrainFile ==
    /\ pc = "train"
    /\ LET file == args.train_data_path[idx]
       IN \E answers \in Answers(file) :
            \E r \in {process_data(disk[file], processed[file], answers)} :
               /\ AfterProcessData(file, r)
               /\ trace' = Append(trace, Processed("train", idx, file, r))
               /\ IF r.kind = "raise"
                  THEN /\ pc' = "aborted"
                       /\ UNCHANGED <<idx, all_train_predictions>>
                  ELSE /\ all_train_predictions' =
                              Extended(all_train_predictions, r.predictions)
                       /\ idx' = idx + 1
                       /\ pc' = IF idx = Len(args.train_data_path)
                                THEN "calibrate" ELSE "train"
    /\ UNCHANGED <<metricVars, args, disk, optimal_threshold, runs>>

\* lines 219-225: the threshold from all the training predictions
CalibrateThreshold ==
    /\ pc = "calibrate"
    /\ \E r \in {get_roc_metrics(all_train_predictions.human, all_train_predictions.llm)} :
          /\ trace' = Append(trace, Calibrated(all_train_predictions.human,
                                               all_train_predictions.llm, r))
          /\ IF r.kind = "raise"
             THEN pc' = "aborted" /\ UNCHANGED <<optimal_threshold, idx>>
             ELSE /\ optimal_threshold' = r.optimal_threshold
                  /\ pc' = "test"
                  /\ idx' = 1
    /\ UNCHANGED <<metricVars, args, disk, processed, all_train_predictions,
                   calls, obtained, recalled, runs>>

\* the threshold handed to get_roc_metrics_with_threshold (lines 192, 231)
TestThreshold == IF args.threshold THEN args.threshold_value ELSE optimal_threshold

\* the threshold written into the results file (lines 200, 239)
ReportedThreshold == IF args.threshold THEN args.threshold_value ELSE optimal_threshold

\* lines 187-207 and 226-246: one test file
TestFile ==
    /\ pc = "test"
    /\ LET file == args.test_data_path[idx]
       IN \E answers \in Answers(file) :
            \E r \in {process_data(disk[file], processed[file], answers)} :
            \E e \in {get_roc_metrics_with_threshold(r.predictions.human,
                                                    r.predictions.llm, TestThreshold)} :
            LET p == Processed("test", idx, file, r)
                v == Evaluated(idx, file, r.predictions, TestThreshold, e)
            IN /\ AfterProcessData(file, r)
               /\ IF r.kind = "raise"
                  THEN /\ trace' = Append(trace, p)
                       /\ pc' = "aborted"
                       /\ idx' = idx
                  ELSE IF e.kind = "raise"
                  THEN /\ trace' = trace \o <<p, v>>
                       /\ pc' = "aborted"
                       /\ idx' = idx
                  ELSE /\ trace' = trace \o
                              <<p, v, Written(idx, file,
                                  [e EXCEPT !.optimal_threshold = ReportedThreshold])>>
                       /\ idx' = idx + 1
                       /\ pc' = IF idx = Len(args.test_data_path) THEN "done" ELSE "test"
    /\ UNCHANGED <<metricVars, args, disk, all_train_predictions, optimal_threshold, runs>>

\* the command is started again on the disk the last run left
Rerun ==
    /\ pc \in {"done", "aborted"}
    /\ runs < MaxRuns
    /\ runs' = runs + 1
    /\ pc' = "start"
    /\ idx' = 0
    /\ all_train_predictions' = NoPredictions
    /\ optimal_threshold' = NoneVal
    /\ trace' = <<>>
    /\ UNCHANGED <<metricVars, args, disk, processed, calls, obtained, recalled>>

Next == Start \/ TrainFile \/ CalibrateThreshold \/ TestFile \/ Rerun

Spec == Init /\ [][Next]_vars

(***************************************************************************)
(* Properties of the metric functions (MetricSpec).                        *)
(***************************************************************************)
BothNonEmpty == real_preds # <<>> /\ sample_preds # <<>>

\* every score of `high` is strictly greater than every score of `low`
Above(high, low) ==
    \A i \in 1..Len(high), j \in 1..Len(low) : high[i] > low[j]

Min(seq) == CHOOSE v \in {seq[i] : i \in 1..Len(seq)} :
                \A i \in 1..Len(seq) : v <= seq[i]

\* a report of a perfect separation of n_human and n_llm samples
Perfect(report, n_human, n_llm) ==
    /\ report.kind = "report"
    /\ IsOne(report.roc_auc)
    /\ report.conf_matrix = <<<<n_human, 0>>, <<0, n_llm>>>>
    /\ IsOne(report.precision)
    /\ IsOne(report.recall)
    /\ IsOne(report.f1)
    /\ IsOne(report.accuracy)

\* C4, as stated: get_roc_metrics called with an empty human population or
\* an empty llm population fails; it never returns a report.
C4_EmptyPopulationFails ==
    (mpc = "calibrated" /\ (real_preds = <<>> \/ sample_preds = <<>>))
        => calibrated.kind = "raise"

\* C5, as stated: whenever every human score is strictly greater than every
\* llm score (human [0.9, 0.8, 0.7], llm [0.1, 0.2, 0.3]), get_roc_metrics
\* returns auc 1, the confusion matrix [[n_human, 0], [0, n_llm]] and
\* precision = recall = f1 = accuracy = 1.
C5_HumanAboveLlmSeparates ==
    (mpc = "calibrated" /\ BothNonEmpty /\ Above(real_preds, sample_preds))
        => Perfect(calibrated, Len(real_preds), Len(sample_preds))

\* C5, amended: whenever every llm score is strictly greater than every
\* human score (human [0.1, 0.2, 0.3], llm [0.9, 0.8, 0.7]), get_roc_metrics
\* returns auc 1, the smallest llm score as the threshold, the confusion
\* matrix [[n_human, 0], [0, n_llm]] and precision = recall = f1 = accuracy = 1.
C5_LlmAboveHumanSeparates ==
    (mpc = "calibrated" /\ BothNonEmpty /\ Above(sample_preds, real_preds))
        => /\ Perfect(calibrated, Len(real_preds), Len(sample_preds))
           /\ calibrated.optimal_threshold = Min(sample_preds)

\* C5, the case: the example with the llm scores on top has been calibrated
\* and the threshold is 0.7
C5_ExampleCalibrated ==
    /\ mpc = "calibrated"
    /\ real_preds = ExampleLow
    /\ sample_preds = ExampleHigh
    /\ calibrated.kind = "report"
    /\ calibrated.optimal_threshold = 7

\* C6: for non-empty populations, get_roc_metrics_with_threshold with the
\* threshold get_roc_metrics returned gives the same confusion matrix,
\* precision, recall, f1 and accuracy that get_roc_metrics returned.
C6_EvaluateReproducesCalibrate ==
    (mpc = "evaluated" /\ BothNonEmpty)
        => /\ calibrated.kind = "report"
           /\ evaluated.kind = "report"
           /\ evaluated.optimal_threshold = calibrated.optimal_threshold
           /\ evaluated.conf_matrix = calibrated.conf_matrix
           /\ evaluated.precision = calibrated.precision
           /\ evaluated.recall = calibrated.recall
           /\ evaluated.f1 = calibrated.f1
           /\ evaluated.accuracy = calibrated.accuracy

\* C6, the case: the threshold chosen is the curve's first point (np.inf,
\* above all scores), of non-empty populations, and it has been evaluated
C6_EvaluatedAtFirstPoint ==
    /\ mpc = "evaluated"
    /\ BothNonEmpty
    /\ calibrated.optimal_threshold = PosInf
    /\ evaluated.kind = "report"

\* Youden's J of the rule "llm iff score >= t", exactly: tp/P - fp/N as the
\* integer tp * N - fp * P over the common denominator P * N
ExactJ(t) ==
    Cardinality({i \in 1..Len(sample_preds) : sample_preds[i] >= t}) * Len(real_preds)
    - Cardinality({i \in 1..Len(real_preds) : real_preds[i] >= t}) * Len(sample_preds)

\* the candidate thresholds of the ROC curve
Candidates ==
    LET curve == RocCurve(RealLabels(real_preds, sample_preds), real_preds \o sample_preds)
    IN {curve.thresholds[k] : k \in 1..Len(curve.thresholds)}

\* C10, as stated: for non-empty populations the threshold returned
\* maximizes J = tpr - fpr over the candidate thresholds of the ROC curve,
\* and among the candidates that reach the maximum it is the largest.
C10_FirstMaximumOfJ ==
    (mpc = "calibrated" /\ BothNonEmpty)
        => /\ calibrated.optimal_threshold \in Candidates
           /\ \A c \in Candidates :
                 /\ ExactJ(c) <= ExactJ(calibrated.optimal_threshold)
                 /\ ExactJ(c) = ExactJ(calibrated.optimal_threshold)
                        => c <= calibrated.optimal_threshold

(***************************************************************************)
(* Properties of the pipeline (Spec), over the history of the run.         *)
(***************************************************************************)
Events(op) == {k \in 1..Len(trace) : trace[k].op = op}
ProcessedIn(phase) == {k \in Events("process_data") : trace[k].phase = phase}
Labels == {"human", "llm"}

\* the items of `data` with this label that have a score
WithScore(data, label) ==
    {i \in 1..Len(data) : data[i].label = label /\ data[i].score \in Nat}

\* C1, as stated: the populations process_data returns contain only present
\* numeric scores; each population is as long as the number of items of its
\* label that have a score.
C1_OnlyPresentScores ==
    \A k \in Events("process_data") :
        trace[k].kind = "return"
            => \A label \in Labels :
                  /\ ~HasNone(trace[k].predictions[label])
                  /\ Len(trace[k].predictions[label])
                        = Cardinality(WithScore(trace[k].data, label))

\* C2, as stated: process_data on a file that exists runs to completion and
\* returns its populations, whatever the correction service answers.
C2_CorrectionFailureNeverAborts ==
    \A k \in Events("process_data") :
        trace[k].kind = "raise" => trace[k].error = "FileNotFoundError"

\* the run stopped on a test file, at position idx of the list
StoppedOnTestFile ==
    /\ pc = "aborted"
    /\ trace # <<>>
    /\ LET last == trace[Len(trace)]
       IN \/ last.op = "process_data" /\ last.phase = "test"
          \/ last.op = "get_roc_metrics_with_threshold"

\* a file that needs neither the service nor a score to be computed anew
\* fails nowhere
Sound(file) == disk[file] = File(<<Prepared("llm")>>)

\* C3, as stated: when a test file fails, every other test file of the list
\* (here: every other one that is sound) still has its report written.
C3_SiblingReportsWritten ==
    StoppedOnTestFile
        => \A p \in 1..Len(args.test_data_path) :
              (p # idx /\ Sound(args.test_data_path[p]))
                  => \E k \in Events("write") : trace[k].position = p

\* C7, as stated: the service is asked at most once for an item whose
\* corrected text it has returned: the text is stored, so no later pass over
\* the file asks for it again.
C7_NeverAskedAgain == ~recalled

RECURSIVE Flatten(_)
Flatten(seqs) == IF seqs = <<>> THEN <<>> ELSE Head(seqs) \o Flatten(Tail(seqs))

\* the populations of the training files processed so far, in file order
TrainPopulation(label, n) ==
    Flatten(ToList([p \in 1..n |-> trace[p].predictions[label]], n))

\* C8: in Mode A the threshold is calibrated at most once in a run, and once
\* in a run that ends; the calibration comes right after the last training
\* file, over the populations of all training files concatenated in file
\* order; no test file is processed, evaluated or reported before it, and
\* every evaluation and every report uses the threshold it returned.
C8_CalibratedOnceOverAllTraining ==
    ~args.threshold
        => LET n == Len(args.train_data_path)
           IN /\ Events("get_roc_metrics") \subseteq {n + 1}
              /\ pc \in {"test", "done"} => Events("get_roc_metrics") = {n + 1}
              /\ \A k \in Events("get_roc_metrics") :
                    /\ \A p \in 1..n :
                          /\ trace[p].op = "process_data"
                          /\ trace[p].phase = "train"
                          /\ trace[p].position = p
                          /\ trace[p].file = args.train_data_path[p]
                          /\ trace[p].kind = "return"
                    /\ trace[k].human = TrainPopulation("human", n)
                    /\ trace[k].llm = TrainPopulation("llm", n)
              /\ \A k \in 1..Len(trace) :
                    trace[k].op \in {"process_data", "get_roc_metrics_with_threshold", "write"}
                        => \/ k <= n /\ trace[k].op = "process_data" /\ trace[k].phase = "train"
                           \/ /\ k > n + 1
                              /\ n + 1 \in Events("get_roc_metrics")
                              /\ trace[n + 1].result.kind = "report"
                              /\ optimal_threshold = trace[n + 1].result.optimal_threshold
                              /\ trace[k].op = "process_data" => trace[k].phase = "test"
                              /\ trace[k].op = "get_roc_metrics_with_threshold"
                                    => trace[k].threshold = optimal_threshold
                              /\ trace[k].op = "write"
                                    => trace[k].report.optimal_threshold = optimal_threshold

\* C8, the case: a Mode A run over two different training files, both with
\* scores, and two test files has ended
C8_TwoTrainingFilesDone ==
    /\ ~args.threshold
    /\ pc = "done"
    /\ args.train_data_path = <<1, 2>>
    /\ Len(args.test_data_path) = 2
    /\ trace[1].predictions # trace[2].predictions
    /\ trace[1].predictions.llm # <<>>
    /\ trace[2].predictions.llm # <<>>
    /\ Cardinality(Events("write")) = 2

Listed(path) == {path[p] : p \in 1..Len(path)}

\* C9: in Mode B no training file is processed and nothing is calibrated,
\* whatever args.train_data_path holds: a file that is not a test file is
\* never cached and the service is never asked about it; each position of
\* the test list gets at most one report, and exactly one in a run that
\* ends; every evaluation uses, and every report carries, the supplied
\* threshold.
C9_FixedThresholdSkipsTraining ==
    args.threshold
        => /\ ProcessedIn("train") = {}
           /\ Events("get_roc_metrics") = {}
           /\ all_train_predictions = NoPredictions
           /\ optimal_threshold = NoneVal
           /\ \A f \in FileNames \ Listed(args.test_data_path) :
                 /\ processed[f] = Missing
                 /\ \A i \in DOMAIN calls[f] : calls[f][i] = 0
           /\ \A k \in Events("get_roc_metrics_with_threshold") :
                 trace[k].threshold = args.threshold_value
           /\ \A k \in Events("write") :
                 /\ trace[k].report.optimal_threshold = args.threshold_value
                 /\ trace[k].file = args.test_data_path[trace[k].position]
                 /\ \A j \in Events("write") : trace[j].position = trace[k].position => j = k
           /\ pc = "done"
                 => \A p \in 1..Len(args.test_data_path) :
                       \E k \in Events("write") : trace[k].position = p

\* C9, the case: a Mode B run given a training file that exists has ended
\* with a report for each of its two test files
C9_TrainingPathGivenDone ==
    /\ args.threshold
    /\ pc = "done"
    /\ args.train_data_path = <<1>>
    /\ disk[1].exists
    /\ args.test_data_path = <<2, 2>>
    /\ Cardinality(Events("write")) = 2

=============================================================================
